---- MODULE Spec2Model ----
(***************************************************************************)
(* Model of app.py, the Property Matcher dashboard: the CSV record store   *)
(* (load_csv with its st.cache_data memo, save_csv), the top-to-bottom     *)
(* script run Streamlit performs on every interaction (Units, Notices,     *)
(* Waitlist, Matches and Run Matching tabs) and run_matching_logic.        *)
(*                                                                         *)
(* A DataFrame is a record [cols, rows]: cols the set of column labels,    *)
(* rows a sequence of functions from cols to cell values.  A cell is a     *)
(* text or NaN.  A file is a record [kind, cols, rows]; its cells are      *)
(* texts, a missing value being written as the empty text.                 *)
(*                                                                         *)
(* files and cache are the program's state.  run records what the last     *)
(* script run did, and marked is a history variable: the units a matching  *)
(* run has marked Matched and no save of the units table has since held    *)
(* otherwise.                                                              *)
(***************************************************************************)
EXTENDS Naturals, Sequences, FiniteSets, TLC

VARIABLES files, cache, run, marked

vars == <<files, cache, run, marked>>

-----------------------------------------------------------------------------
(* File paths, app.py lines 14-17 *)
UNITS_FILE == "units.csv"
NOTICES_FILE == "notices.csv"
WAITLIST_FILE == "waitlist.csv"
MATCHES_FILE == "matches.csv"

Paths == {UNITS_FILE, NOTICES_FILE, WAITLIST_FILE, MATCHES_FILE}

(* Bounds of the model *)
MaxUnits == 2
MaxApplicants == 3
MaxRows == 1

-----------------------------------------------------------------------------
(* Cell values *)
NaN == "<NaN>"

\* Series.astype(str): a missing value becomes the text "nan"
AsStr(v) == IF v = NaN THEN "nan" ELSE v

\* pd.isna
isna(v) == v = NaN

(* DataFrames *)
DataFrame(cols, rows) == [cols |-> cols, rows |-> rows]

\* pd.DataFrame(): no columns, no rows
EmptyDataFrame == DataFrame({}, <<>>)

\* DataFrame.empty: any axis of length 0
empty(df) == df.cols = {} \/ df.rows = <<>>

Indices(df) == 1..Len(df.rows)

\* f applied to every element of a sequence
MapSeq(s, f(_)) == IF s = <<>> THEN <<>> ELSE [i \in 1..Len(s) |-> f(s[i])]

\* boolean-mask row selection df[mask]: the rows satisfying keep, in order
SelectRows(rows, keep(_)) == SelectSeq(rows, keep)

(* Files *)
Missing == [kind |-> "missing", cols |-> {}, rows |-> <<>>]
Malformed == [kind |-> "malformed", cols |-> {}, rows |-> <<>>]
Csv(cols, rows) == [kind |-> "csv", cols |-> cols, rows |-> rows]

\* DataFrame.to_csv(path, index=False): a header line and one line per row;
\* a missing value is written as the empty text
WriteCell(v) == IF isna(v) THEN "" ELSE v
WriteRow(r) == [c \in DOMAIN r |-> WriteCell(r[c])]
to_csv(df) == Csv(df.cols, MapSeq(df.rows, WriteRow))

\* pd.read_csv: the empty text is read back as a missing value; a file
\* with no header raises EmptyDataError, an unparseable one ParserError
ReadCell(t) == IF t = "" THEN NaN ELSE t
ReadRow(r) == [c \in DOMAIN r |-> ReadCell(r[c])]
read_csv(f) ==
    IF f.kind = "malformed" THEN [raised |-> "ParserError", df |-> EmptyDataFrame]
    ELSE IF f.cols = {} THEN [raised |-> "EmptyDataError", df |-> EmptyDataFrame]
    ELSE [raised |-> "none", df |-> DataFrame(f.cols, MapSeq(f.rows, ReadRow))]

\* df.columns.str.contains("^Unnamed")
UnnamedColumn == "Unnamed: 0"
IsUnnamed(c) == c = UnnamedColumn

\* df.loc[:, ~df.columns.str.contains("^Unnamed")]
DropUnnamed(df) ==
    LET keep == {c \in df.cols : ~IsUnnamed(c)}
        Cut(r) == [c \in keep |-> r[c]]
    IN DataFrame(keep, MapSeq(df.rows, Cut))

\* lines 26-31: an EmptyDataError is caught and answered with an empty
\* table; any other exception of read_csv propagates
AfterRead(r) ==
    IF r.raised = "EmptyDataError" THEN [raised |-> "none", df |-> EmptyDataFrame]
    ELSE IF r.raised # "none" THEN r
    ELSE [raised |-> "none", df |-> DropUnnamed(r.df)]

\* the body of load_csv, run on a cache miss
load_csv_body(f) ==
    IF f.kind = "missing" THEN [raised |-> "none", df |-> EmptyDataFrame]
    ELSE AfterRead(read_csv(f))

(* The st.cache_data memo of load_csv: one entry per path *)
NoEntry == [hit |-> FALSE, df |-> EmptyDataFrame]
Entry(df) == [hit |-> TRUE, df |-> df]
NoCache == [p \in Paths |-> NoEntry]

\* a miss of the memo: what the body returns is cached, an exception is not
Memoize(w, path, r) ==
    IF r.raised # "none" THEN [raised |-> r.raised, df |-> EmptyDataFrame, w |-> w]
    ELSE [raised |-> "none", df |-> r.df,
          w |-> [w EXCEPT !.cache[path] = Entry(r.df)]]

\* load_csv(path) through @st.cache_data, against the store w (files and
\* cache): a hit returns (a copy of) the cached table
load_csv(w, path) ==
    IF w.cache[path].hit
    THEN [raised |-> "none", df |-> w.cache[path].df, w |-> w]
    ELSE Memoize(w, path, load_csv_body(w.files[path]))

\* a save_csv that leaves the memo as it is
CacheAfterSaveKept(c) == c

\* load_csv.clear() in save_csv: every entry of the memo is dropped
CacheAfterSave(c) == NoCache

\* save_csv(df, path): the file is overwritten, then the memo cleared
save_csv(w, df, path) ==
    [files |-> [w.files EXCEPT ![path] = to_csv(df)],
     cache |-> CacheAfterSave(w.cache)]

-----------------------------------------------------------------------------
(* The tables of the data model.  Columns run_matching_logic never reads   *)
(* (Floor Plan, Direction, Floor Plan 1/2/3) are left out; Floor stands    *)
(* for the columns the two tables have in common.  The i-th row of the     *)
(* units table is unit A<i>, whose notice (Ready Date) is given on every   *)
(* second unit; the i-th row of the waitlist is applicant P<i>.            *)
UnitId(i) == "A" \o ToString(i)
ApplicantName(i) == "P" \o ToString(i)
ReadyDate(i) == IF i % 2 = 1 THEN NaN ELSE "2024-01-01"
Statuses == {"Available", "Matched"}
FloorValue == "3"
CurrentUnit == "B7"

UnitCols(hasMatched) ==
    {"Unit", "Floor", "Ready Date"} \cup (IF hasMatched THEN {"Matched"} ELSE {})
WaitlistCols(hasUnit) ==
    {"Applicant", "Floor"} \cup (IF hasUnit THEN {"Unit"} ELSE {})

\* the rows a user can type for unit i under the given columns
UnitRows(cols, i) ==
    {[c \in cols |-> IF c = "Unit" THEN UnitId(i)
                     ELSE IF c = "Floor" THEN FloorValue
                     ELSE IF c = "Ready Date" THEN ReadyDate(i)
                     ELSE m] : m \in Statuses}

\* the row a user can type for applicant i under the given columns
WaitlistRow(cols, i) ==
    [c \in cols |-> IF c = "Applicant" THEN ApplicantName(i)
                    ELSE IF c = "Floor" THEN FloorValue
                    ELSE CurrentUnit]

\* the tables of at most n rows
UnitTables(cols, n) ==
    {DataFrame(cols, rows) :
        rows \in UNION {{s \in [1..k -> UNION {UnitRows(cols, i) : i \in 1..k}] :
                            \A i \in 1..k : s[i] \in UnitRows(cols, i)} : k \in 0..n}}
WaitlistTables(cols, n) ==
    {DataFrame(cols, [i \in 1..k |-> WaitlistRow(cols, i)]) : k \in 0..n}

RemoveAt(s, i) == SubSeq(s, 1, i - 1) \o SubSeq(s, i + 1, Len(s))

-----------------------------------------------------------------------------
(* run_matching_logic, app.py lines 142-179 *)

\* lines 145-146: the Matched column is added, Available in every row
EnsureMatched(df) ==
    IF "Matched" \in df.cols THEN df
    ELSE LET Add(r) == [c \in df.cols \cup {"Matched"} |->
                           IF c = "Matched" THEN "Available" ELSE r[c]]
         IN DataFrame(df.cols \cup {"Matched"}, MapSeq(df.rows, Add))

\* a filter that keeps every unit, whatever its status
IsAvailableAny(r) == TRUE

\* line 149: units_df["Matched"].astype(str) == "Available"
IsAvailable(r) == AsStr(r["Matched"]) = "Available"

AvailableUnits(df) == DataFrame(df.cols, SelectRows(df.rows, IsAvailable))

\* the label pd.merge gives a column: suffixed when both frames have it
MergedName(c, overlap, suffix) == IF c \in overlap THEN c \o suffix ELSE c

\* line 160: pd.merge(units_df, waitlist_df, on="key",
\* suffixes=("_unit", "_applicant")).drop(columns=["key"]): every row of the
\* left frame with every row of the right one, left-major
merge(left, right) ==
    LET overlap == left.cols \cap right.cols
        LName(c) == MergedName(c, overlap, "_unit")
        RName(c) == MergedName(c, overlap, "_applicant")
        lcols == {LName(c) : c \in left.cols}
        rcols == {RName(c) : c \in right.cols}
        n == Len(left.rows)
        m == Len(right.rows)
        Joined(l, r) ==
            [c \in lcols \cup rcols |->
                IF c \in lcols
                THEN l[CHOOSE x \in left.cols : LName(x) = c]
                ELSE r[CHOOSE x \in right.cols : RName(x) = c]]
    IN DataFrame(lcols \cup rcols,
                 IF n * m = 0 THEN <<>>
                 ELSE [k \in 1..(n * m) |->
                          Joined(left.rows[((k - 1) \div m) + 1],
                                 right.rows[((k - 1) % m) + 1])])

\* lines 165-166: matched["score"] = 1; matched["match_status"] = "Pending"
Scored(df) ==
    LET cols == df.cols \cup {"score", "match_status"}
        Add(r) == [c \in cols |->
                      IF c = "score" THEN "1"
                      ELSE IF c = "match_status" THEN "Pending" ELSE r[c]]
    IN DataFrame(cols, MapSeq(df.rows, Add))

\* line 169: matched["Unit_unit"].astype(str).unique().tolist()
MatchedUnits(matched) ==
    {AsStr(matched.rows[i]["Unit_unit"]) : i \in 1..Len(matched.rows)}

\* lines 172-175: full_units_df.loc[Unit in matched_units, "Matched"] = "Matched";
\* a column the frame lacks is created, missing where nothing is assigned
MarkMatched(full, matched_units) ==
    LET cols == full.cols \cup {"Matched"}
        Mark(r) == [c \in cols |->
                       IF c # "Matched" THEN r[c]
                       ELSE IF AsStr(r["Unit"]) \in matched_units THEN "Matched"
                       ELSE IF "Matched" \in full.cols THEN r["Matched"]
                       ELSE NaN]
    IN DataFrame(cols, MapSeq(full.rows, Mark))

Returned(w, df, merged) ==
    [raised |-> "none", returned |-> TRUE, df |-> df, merged |-> merged, w |-> w]
Raised(w, e, merged) ==
    [raised |-> e, returned |-> FALSE, df |-> EmptyDataFrame, merged |-> merged,
     w |-> w]

\* lines 171-179, with full_units_df = load_csv(UNITS_FILE) as l
MarkUnits(matched, l) ==
    IF l.raised # "none" THEN Raised(l.w, l.raised, matched)
    ELSE IF "Unit" \notin l.df.cols THEN Raised(l.w, "KeyError", matched)
    ELSE Returned(save_csv(l.w, MarkMatched(l.df, MatchedUnits(matched)),
                           UNITS_FILE),
                  matched, matched)

\* lines 168-170: matched["Unit_unit"] raises KeyError when the cross join
\* has no such column
MarkFrom(w, matched) ==
    IF "Unit_unit" \notin matched.cols THEN Raised(w, "KeyError", matched)
    ELSE MarkUnits(matched, load_csv(w, UNITS_FILE))

\* lines 162-166
ScoreFrom(w, merged) ==
    IF empty(merged) THEN Returned(w, merged, merged)
    ELSE MarkFrom(w, Scored(merged))

\* lines 151-160, with the available units as units_df
CrossJoin(w, units_df, waitlist_df) ==
    IF empty(units_df) \/ empty(waitlist_df)
    THEN Returned(w, EmptyDataFrame, EmptyDataFrame)
    ELSE ScoreFrom(w, merge(units_df, waitlist_df))

\* The whole function.  w is the store (files and cache) it runs against;
\* the result carries the store it leaves, the table it returns or the
\* exception it raises, and the cross join it had built (merged).
run_matching_logic(w, units_df, waitlist_df) ==
    CrossJoin(w, AvailableUnits(EnsureMatched(units_df)), waitlist_df)

-----------------------------------------------------------------------------
(* The script.  Streamlit runs app.py top to bottom on every interaction;  *)
(* an uncaught exception ends the run where it is raised.                  *)

World == [files |-> files, cache |-> cache]

\* Units tab, line 197: units_df = load_csv(UNITS_FILE)
UnitsLoaded(l) ==
    [raised |-> l.raised, w |-> l.w, units_df |-> l.df,
     waitlist_df |-> EmptyDataFrame]
UnitsTab(w) == UnitsLoaded(load_csv(w, UNITS_FILE))

\* Notices tab, lines 215-223: units_df["Ready Date"] and
\* notices_df[["Unit", "Ready Date"]] raise KeyError on a table without
\* these columns; what the tab shows is not kept
NoticesTab(p) ==
    IF p.raised # "none" THEN p
    ELSE IF {"Unit", "Ready Date"} \subseteq p.units_df.cols THEN p
    ELSE [p EXCEPT !.raised = "KeyError"]

\* Waitlist tab, line 238: waitlist_df = load_csv(WAITLIST_FILE)
WaitlistLoaded(p, l) ==
    [raised |-> l.raised, w |-> l.w, units_df |-> p.units_df,
     waitlist_df |-> l.df]
WaitlistTab(p) ==
    IF p.raised # "none" THEN p
    ELSE WaitlistLoaded(p, load_csv(p.w, WAITLIST_FILE))

\* Matches tab, line 256: matches_df = load_csv(MATCHES_FILE)
MatchesLoaded(p, l) == [p EXCEPT !.raised = l.raised, !.w = l.w]
MatchesTab(p) ==
    IF p.raised # "none" THEN p
    ELSE MatchesLoaded(p, load_csv(p.w, MATCHES_FILE))

\* lines 194-264 with no button pressed
Tabs(w) == MatchesTab(WaitlistTab(NoticesTab(UnitsTab(w))))

\* what a script run leaves for the claims to look at: whether the Run
\* Matching handler ran, the exception that ended the run, the message
\* shown, the tables handed to run_matching_logic, its cross join and the
\* table it returned
Report(raised, message, units_in, waitlist_in, merged, result, returned) ==
    [handler |-> TRUE, raised |-> raised, message |-> message,
     units_in |-> units_in, waitlist_in |-> waitlist_in,
     merged |-> merged, result |-> result, returned |-> returned]
Idle(raised) ==
    [handler |-> FALSE, raised |-> raised, message |-> "none",
     units_in |-> EmptyDataFrame, waitlist_in |-> EmptyDataFrame,
     merged |-> EmptyDataFrame, result |-> EmptyDataFrame, returned |-> FALSE]

\* the unit of a row of the cross join
PairUnit(r) == IF "Unit_unit" \in DOMAIN r THEN r["Unit_unit"] ELSE r["Unit"]
PairedUnits(df) == {PairUnit(df.rows[i]) : i \in Indices(df)}

\* the units a units table holds as Matched
MatchedUnitsOf(df) ==
    IF "Matched" \notin df.cols THEN {}
    ELSE {df.rows[i]["Unit"] : i \in {j \in Indices(df) : df.rows[j]["Matched"] = "Matched"}}

\* the end of a script run: the store it leaves, its report, and the history
\* of marked units (kept, and the units of the rows a run returned)
Commit(w, report, kept) ==
    /\ files' = w.files
    /\ cache' = w.cache
    /\ run' = report
    /\ marked' = kept \cup PairedUnits(report.result)

\* the end of a script run that pressed no button
Shown(t, kept) == Commit(t.w, Idle(t.raised), kept)

\* st.rerun() after a save: the script starts again with no button pressed
Rerun(w, kept) == Shown(Tabs(w), kept)

\* an interaction that presses no button (a search box, a row selection)
View ==
    /\ Rerun(World, marked)
    /\ TRUE

\* st.data_editor(units_df, num_rows="dynamic"): the table as the user left
\* it: unchanged, a row retyped, a row added at the end, the last row deleted
UnitEdits(df) ==
    IF df.cols = {} THEN {df}
    ELSE {df}
         \cup UNION {{DataFrame(df.cols, [df.rows EXCEPT ![i] = r]) :
                          r \in UnitRows(df.cols, i)} : i \in 1..Len(df.rows)}
         \cup {DataFrame(df.cols, Append(df.rows, r)) :
                 r \in IF Len(df.rows) < MaxUnits
                       THEN UnitRows(df.cols, Len(df.rows) + 1) ELSE {}}
         \cup {DataFrame(df.cols, RemoveAt(df.rows, i)) :
                 i \in {Len(df.rows)} \ {0}}

\* Units tab, lines 200-209: Save Changes
SaveChanges(p) ==
    /\ p.raised = "none"
    /\ \E edited_df \in UnitEdits(p.units_df) :
          Rerun(save_csv(p.w, edited_df, UNITS_FILE),
                marked \cap MatchedUnitsOf(edited_df))

UnitsSave == SaveChanges(UnitsTab(World))

\* show_record_form, lines 110-115: Add new.  A table without columns has
\* no input to fill in and is left alone.
AddNew(p) ==
    /\ p.raised = "none"
    /\ p.waitlist_df.cols # {}
    /\ Len(p.waitlist_df.rows) < MaxApplicants
    /\ \E new_row \in {WaitlistRow(p.waitlist_df.cols, Len(p.waitlist_df.rows) + 1)} :
          Rerun(save_csv(p.w, DataFrame(p.waitlist_df.cols,
                                        Append(p.waitlist_df.rows, new_row)),
                         WAITLIST_FILE), marked)

WaitlistAdd == AddNew(WaitlistTab(NoticesTab(UnitsTab(World))))

\* show_record_form, lines 118-127: Update selected
UpdateSelected(p) ==
    /\ p.raised = "none"
    /\ \E original_index \in 1..Len(p.waitlist_df.rows) :
          Rerun(save_csv(p.w, DataFrame(p.waitlist_df.cols,
                             [p.waitlist_df.rows EXCEPT ![original_index] =
                                 WaitlistRow(p.waitlist_df.cols, original_index)]),
                         WAITLIST_FILE), marked)

WaitlistUpdate == UpdateSelected(WaitlistTab(NoticesTab(UnitsTab(World))))

\* show_record_form, lines 130-137: Delete selected (the last row)
DeleteSelected(p) ==
    /\ p.raised = "none"
    /\ \E original_index \in {Len(p.waitlist_df.rows)} \ {0} :
          Rerun(save_csv(p.w, DataFrame(p.waitlist_df.cols,
                                        RemoveAt(p.waitlist_df.rows, original_index)),
                         WAITLIST_FILE), marked)

WaitlistDelete == DeleteSelected(WaitlistTab(NoticesTab(UnitsTab(World))))

\* the messages of lines 285-295
UnitsEmptyMessage == "warning: Units data is empty. Please add units first."
WaitlistEmptyMessage == "warning: Waitlist data is empty. Please add applicants first."
NoMatchesMessage == "warning: Matching completed, but no matches were produced."
SuccessMessage == "success: Matching completed successfully."

\* a handler that reports every table run_matching_logic returns as a success
AnnounceSuccess(matches_df) == SuccessMessage

\* lines 292-295: the message for the table run_matching_logic returned
Announce(matches_df) ==
    IF empty(matches_df) THEN NoMatchesMessage ELSE SuccessMessage

\* a load of the handler that raised
LoadFailed(l) ==
    Commit(l.w, Report(l.raised, "none", EmptyDataFrame, EmptyDataFrame,
                       EmptyDataFrame, EmptyDataFrame, FALSE), marked)

\* a handler that only warns
Warned(w, message, units_df, waitlist_df) ==
    Commit(w, Report("none", message, units_df, waitlist_df,
                     EmptyDataFrame, EmptyDataFrame, FALSE), marked)

\* lines 289-296, with m what run_matching_logic did
AfterMatching(units_df, waitlist_df, m) ==
    IF ~m.returned
    THEN Commit(m.w, Report(m.raised, "none", units_df, waitlist_df,
                            m.merged, EmptyDataFrame, FALSE), marked)
    ELSE Commit(save_csv(m.w, m.df, MATCHES_FILE),
                Report("none", Announce(m.df), units_df, waitlist_df,
                       m.merged, m.df, TRUE), marked)

\* lines 284-289
Decide(w, units_df, waitlist_df) ==
    IF empty(units_df) THEN Warned(w, UnitsEmptyMessage, units_df, waitlist_df)
    ELSE IF empty(waitlist_df)
    THEN Warned(w, WaitlistEmptyMessage, units_df, waitlist_df)
    ELSE AfterMatching(units_df, waitlist_df,
                 run_matching_logic(w, units_df, waitlist_df))

\* line 282: waitlist_df = load_csv(WAITLIST_FILE)
HandlerWaitlist(u, l) ==
    IF l.raised # "none" THEN LoadFailed(l) ELSE Decide(l.w, u.df, l.df)

\* line 281: notices_df = load_csv(NOTICES_FILE)
HandlerNotices(u, n) ==
    IF n.raised # "none" THEN LoadFailed(n)
    ELSE HandlerWaitlist(u, load_csv(n.w, WAITLIST_FILE))

\* line 280: units_df = load_csv(UNITS_FILE)
HandlerUnits(u) ==
    IF u.raised # "none" THEN LoadFailed(u)
    ELSE HandlerNotices(u, load_csv(u.w, NOTICES_FILE))

\* Run Matching tab, lines 279-296, reached with the button pressed
Handler(w) == HandlerUnits(load_csv(w, UNITS_FILE))

\* the script after the tabs, Run Matching pressed
Pressed(t) == IF t.raised # "none" THEN Shown(t, marked) ELSE Handler(t.w)

\* a script run with Run Matching pressed
RunMatching == Pressed(Tabs(World))

-----------------------------------------------------------------------------
(* The application: the files as found at start, then one script run per   *)
(* interaction.                                                            *)

Init ==
    /\ \E h \in BOOLEAN, g \in BOOLEAN :
         \E units \in UnitTables(UnitCols(h), MaxUnits),
            waitlist \in WaitlistTables(WaitlistCols(g), MaxApplicants),
            umissing \in BOOLEAN, wmissing \in BOOLEAN :
            files = [p \in Paths |->
                       IF p = UNITS_FILE /\ ~umissing THEN to_csv(units)
                       ELSE IF p = WAITLIST_FILE /\ ~wmissing THEN to_csv(waitlist)
                       ELSE Missing]
    /\ cache = NoCache
    /\ run = Idle("none")
    /\ marked = {}

Next ==
    \/ View
    \/ UnitsSave
    \/ WaitlistAdd
    \/ WaitlistUpdate
    \/ WaitlistDelete
    \/ RunMatching

Spec == Init /\ [][Next]_vars

-----------------------------------------------------------------------------
(* The record store on its own: any sequence of load_csv and save_csv      *)
(* calls of one process, over files found missing, blank, unparseable or   *)
(* holding a table.  run is the last call: its path, what it raised, the   *)
(* table it returned (load) or was given (save), and for every path the    *)
(* table most recently saved to it (evicted: the memo held an entry for    *)
(* the path when that save was made).                                      *)

StorePaths == {UNITS_FILE, MATCHES_FILE}
StoreCells == {"A1", "", NaN}

StoreRows(cols) ==
    {[c \in cols |-> IF IsUnnamed(c) THEN "0" ELSE v] : v \in StoreCells}

StoreTables ==
    {EmptyDataFrame} \cup
    UNION {{DataFrame(cols, rows) :
               rows \in UNION {[1..k -> StoreRows(cols)] : k \in 0..MaxRows}} :
           cols \in {{"Unit"}, {"Unit", UnnamedColumn}}}

StoreFiles == {Missing, Malformed} \cup {to_csv(df) : df \in StoreTables}

NeverSaved == [valid |-> FALSE, evicted |-> FALSE, df |-> EmptyDataFrame]

StoreCall(op, path, raised, df, saved) ==
    [op |-> op, path |-> path, raised |-> raised, df |-> df, saved |-> saved]

StoreInit ==
    /\ \E f \in [StorePaths -> StoreFiles] :
          files = [p \in Paths |-> IF p \in StorePaths THEN f[p] ELSE Missing]
    /\ cache = NoCache
    /\ run = StoreCall("start", UNITS_FILE, "none", EmptyDataFrame,
                       [p \in StorePaths |-> NeverSaved])
    /\ marked = {}

StoreLoaded(path, l) ==
    /\ files' = l.w.files
    /\ cache' = l.w.cache
    /\ run' = StoreCall("load", path, l.raised, l.df, run.saved)
    /\ marked' = marked

\* a call load_csv(path)
StoreLoad == \E path \in StorePaths : StoreLoaded(path, load_csv(World, path))

StoreSaved(path, df, w) ==
    /\ files' = w.files
    /\ cache' = w.cache
    /\ run' = StoreCall("save", path, "none", df,
                        [run.saved EXCEPT ![path] =
                            [valid |-> TRUE, evicted |-> cache[path].hit, df |-> df]])
    /\ marked' = marked

\* a call save_csv(df, path)
StoreSave ==
    \E path \in StorePaths, df \in StoreTables :
        StoreSaved(path, df, save_csv(World, df, path))

StoreNext ==
    \/ StoreLoad
    \/ StoreSave

SpecStore == StoreInit /\ [][StoreNext]_vars

-----------------------------------------------------------------------------
(* What the claims speak of *)

\* the table a load of path returns from the file as it is now
Persisted(path) == load_csv_body(files[path]).df

\* a table as a CSV file keeps it: no index-placeholder column, the empty
\* text a missing value
Blanked(r) == [c \in DOMAIN r |-> IF r[c] = "" THEN NaN ELSE r[c]]
AsStored(df) ==
    LET keep == {c \in df.cols : c # UnnamedColumn}
        Keep(r) == [c \in keep |-> Blanked(r)[c]]
    IN IF df.cols = {} THEN EmptyDataFrame
       ELSE DataFrame(keep, MapSeq(df.rows, Keep))

\* the rows of a units table whose Matched status is Available, or all of
\* them when the table has no Matched column
AvailableIndices(df) ==
    {i \in Indices(df) : "Matched" \in df.cols => df.rows[i]["Matched"] = "Available"}

\* a Ready Date that is present and not blank
HasReadyDate(r) == "Ready Date" \in DOMAIN r /\ r["Ready Date"] \notin {NaN, "", " "}

\* the handler called run_matching_logic
Invoked == run.handler /\ ~empty(run.units_in) /\ ~empty(run.waitlist_in)

\* the tables handed over have the columns of the data model and no other
ConformsToDataModel ==
    /\ {"Unit", "Floor", "Ready Date"} \subseteq run.units_in.cols
    /\ run.units_in.cols \subseteq {"Unit", "Floor", "Ready Date", "Matched"}
    /\ run.waitlist_in.cols = {"Applicant", "Floor"}

Warnings == {UnitsEmptyMessage, WaitlistEmptyMessage, NoMatchesMessage}

-----------------------------------------------------------------------------
(* Claims *)

\* C1: cross-join mode returns exactly one row for every (available unit,
\* applicant) pair: whenever run_matching_logic is called, it returns a table
\* of (available units) x (applicants) rows.
C1_CrossJoinRows ==
    Invoked =>
        /\ run.returned
        /\ Len(run.result.rows) =
              Cardinality(AvailableIndices(run.units_in)) * Len(run.waitlist_in.rows)

\* C2: after a matching run whose cross join produced at least one pair,
\* every unit of a pair is Matched in the persisted units table.
C2_PairedUnitsMarked ==
    (Invoked /\ ~empty(run.merged)) =>
        PairedUnits(run.merged) \subseteq MatchedUnitsOf(Persisted(UNITS_FILE))

\* C3: only units with a non-blank Ready Date are matched: every row a run
\* returns has one, and a units table without such a unit yields no row.
C3_OnlyReadyUnits ==
    run.returned =>
        /\ \A i \in Indices(run.result) : HasReadyDate(run.result.rows[i])
        /\ (\A i \in Indices(run.units_in) : ~HasReadyDate(run.units_in.rows[i]))
              => empty(run.result)

\* C4: on tables that conform to the data model a matching run raises
\* nothing and returns a match table.
C4_NoException ==
    (Invoked /\ ConformsToDataModel) => (run.raised = "none" /\ run.returned)

\* C5: after every matching run from the Run Matching tab that ended without
\* an error, the persisted matches table holds exactly the rows of that run
\* (none when units or waitlist are empty).
C5_MatchesOverwritten ==
    (run.handler /\ run.raised = "none") =>
        IF empty(run.result) THEN empty(Persisted(MATCHES_FILE))
        ELSE Persisted(MATCHES_FILE) = AsStored(run.result)

\* C6: every cached entry equals what its file holds now, and a load_csv of
\* a path that follows a save_csv to it returns the table saved last, as
\* stored.
C6_ReadAfterWrite ==
    /\ \A p \in Paths : cache[p].hit =>
          /\ load_csv_body(files[p]).raised = "none"
          /\ cache[p].df = Persisted(p)
    /\ (run.op = "load" /\ run.saved[run.path].valid) =>
          /\ run.raised = "none"
          /\ run.df = AsStored(run.saved[run.path].df)

\* a load that follows a save which dropped a cached entry of the same path
C6_Witness ==
    /\ run.op = "load"
    /\ run.saved[run.path].valid
    /\ run.saved[run.path].evicted
    /\ ~empty(run.df)

\* C7: load_csv returns an empty table and raises nothing for a file that is
\* missing, blank or unparseable.
C7_MalformedIsEmpty ==
    (run.op = "load" /\ (files[run.path].kind # "csv" \/ files[run.path].cols = {})) =>
        (run.raised = "none" /\ empty(run.df))

\* C8: when no unit is available or the waitlist is empty, the run raises
\* nothing, yields no match row and the handler shows a warning.
C8_EmptyInput ==
    (run.handler /\ (AvailableIndices(run.units_in) = {} \/ empty(run.waitlist_in))) =>
        /\ run.raised = "none"
        /\ empty(run.result)
        /\ run.message \in Warnings

\* run_matching_logic was called on units none of which is available
C8_Witness ==
    /\ Invoked
    /\ AvailableIndices(run.units_in) = {}
    /\ run.returned
    /\ run.message = NoMatchesMessage

\* C9: weighted best-fit: with an eligible unit and a non-empty waitlist the
\* run returns one row per applicant, in waitlist order, and leaves every
\* unit's status as it was.
C9_OneRowPerApplicant ==
    (run.returned /\ \E i \in AvailableIndices(run.units_in) :
                        HasReadyDate(run.units_in.rows[i])) =>
        /\ Len(run.result.rows) = Len(run.waitlist_in.rows)
        /\ \A i \in Indices(run.result) :
              run.result.rows[i]["Applicant"] = run.waitlist_in.rows[i]["Applicant"]
        /\ Persisted(UNITS_FILE) = run.units_in

\* C10: a unit a matching run has marked Matched is in no pair of a later
\* run, and stays Matched in the persisted units table, until a save of the
\* units table holds it otherwise; and a run that follows a run pairs none
\* of the units that one returned.
C10_MatchedExcluded ==
    [][/\ run'.handler => PairedUnits(run'.merged) \cap marked = {}
       /\ marked' \subseteq MatchedUnitsOf(Persisted(UNITS_FILE))'
       /\ (run.returned /\ run'.handler) =>
             PairedUnits(run'.merged) \cap PairedUnits(run.result) = {}]_vars

\* a run returns pairs of other units while a unit an earlier run marked is
\* still Matched
C10_Witness ==
    /\ run.returned
    /\ ~empty(run.result)
    /\ marked \ PairedUnits(run.result) # {}

====
